---- MODULE Spec2Model ----
(***************************************************************************)
(* A model of the Eitaa messenger crawler: the crawl orchestrator          *)
(* (app/crawler.py), the data handlers and storage strategies              *)
(* (app/data/data_handlers.py, app/data/storage_strategies.py) and the     *)
(* broker publisher (app/kafka/kafka_manager.py).                          *)
(*                                                                         *)
(* A datetime is a natural number (1 is the earliest instant), None is     *)
(* the empty sequence and a value that may be None is a sequence of        *)
(* length at most one.  A dict is a function whose DOMAIN is its key set,  *)
(* except pending_deliveries, which keeps Python's insertion order and is  *)
(* a sequence of <<key, value>> pairs.                                     *)
(***************************************************************************)
EXTENDS Integers, Sequences, FiniteSets, TLC

(* ------------------------------ bounds -------------------------------- *)
\* numeric ids a fetched fragment may carry: 1..MaxId
MaxId == 2
\* posted timestamps a fetched fragment may carry: 1..MaxTime
MaxTime == 2
\* raw fragments on one fetched page: 1..MaxFrags
MaxFrags == 2
\* crawl cycles of one behaviour, over all runs of the process
MaxCycles == 3
\* batches a flush that timed out may leave in the producer's queue
MaxInflight == 1
\* faults of the environment in one behaviour: a write or read that fails,
\* a producer that cannot be constructed, a publish that raises, a flush
\* that brings a failure report or times out
MaxFaults == 1
\* the cycles of the main loop are counted modulo MaxLoops
MaxLoops == 3
\* the proxy lists offer at most MaxProxies proxies
MaxProxies == 2
\* the clock of the proxy pool moves at most MaxTicks half intervals
MaxTicks == 3
\* at most MaxFailed channels fail in one cycle
MaxFailed == 2
\* the batches of a cycle and the channels of a batch where the bios are followed
MaxBatches == 2
BioBatchSize == 2

(* --------------------------- configuration ---------------------------- *)
\* config/users.json: the channel list handed to EitaaCrawler
Channels == <<"a">>
\* the values config.CUMULATIVE_JSON_ITERATIONS is documented to take:
\* 0 (snapshots only), -1 (cumulative file, snapshots kept), N > 0 (keep N)
CumulativeChoices == {-1, 0, 1, 2}
\* KafkaManager.send's default chunk_size
chunk_size == 1000
\* config.CRAWL_INTERVAL_SECONDS as config.py sets it
CRAWL_INTERVAL_SECONDS == 1800
\* the floor of the cycle interval in EitaaCrawler.run and in the application
MIN_INTERVAL == 60
\* the sleep after a cycle that failed
RECOVERY_DELAY == 300
\* fetch_channel_data's default retries, which the crawler leaves as it is
retries == 2
\* config.REFRESH_INTERVAL, the seconds a proxy pool is kept
REFRESH_INTERVAL == 3600
\* the default batch_size of crawl_new_messages_and_bios, which run() leaves as it is
batch_size == 10
\* the sleep before a reduced batch
RATE_LIMIT_DELAY == 30
\* the sleep at the end of the loop body of a channel
POLITENESS_DELAY == 1

None == <<>>
Some(v) == <<v>>

(* ------------------------------- paths -------------------------------- *)
\* config.LAST_TIME_FILE
LAST_TIME_FILE == <<"last_crawled_times", "", 0>>
\* os.path.join(base_dir, f"{channel_id}.json")
LegacyFile(ch) == <<"legacy", ch, 0>>
\* os.path.join(channel_dir, f"messages_{timestamp}.json")
TimestampedFile(ch, t) == <<"messages", ch, t>>

(* ----------------------- datetime <-> ISO string ---------------------- *)
isoformat(t) == [iso |-> t]
fromisoformat(s) == s.iso

(* ------------------------------ records ------------------------------- *)
\* What a raw fragment yields: id 0 stands for a fragment in which no id is
\* found, time is the instant its time element carries.
RawFragments == [id : 0..MaxId, time : 1..MaxTime]

\* DataExtractor.extract_message_details: None when no id is found, else
\* the structured record with its posted time as an ISO string.
extract_message_details(raw, ch) ==
  IF raw.id = 0 THEN None
  ELSE Some([id |-> raw.id, channel_id |-> ch, posted_time |-> isoformat(raw.time)])

SeqsUpTo(S, n) == UNION {[1..k -> S] : k \in 1..n}

\* the pages a successful fetch can return: at least one raw fragment
Pages == SeqsUpTo(RawFragments, MaxFrags)

Range(s) == {s[k] : k \in DOMAIN s}
Ids(msgs) == {msgs[k].id : k \in DOMAIN msgs}
Max(a, b) == IF a >= b THEN a ELSE b

(* ------------------------------- dicts -------------------------------- *)
Get(d, k) == IF k \in DOMAIN d THEN Some(d[k]) ELSE None
Put(d, k, v) == [x \in DOMAIN d \cup {k} |-> IF x = k THEN v ELSE d[x]]
Del(d, k) == [x \in DOMAIN d \ {k} |-> d[x]]
EmptyDict == [x \in {} |-> 0]

\* the ordered dict pending_deliveries
HasKey(p, key) == \E k \in DOMAIN p : p[k][1] = key
Lookup(p, key) == p[CHOOSE k \in DOMAIN p : p[k][1] = key][2]
Pop(p, key) == SelectSeq(p, LAMBDA e : e[1] # key)


Min(a, b) == IF a <= b THEN a ELSE b

(* ------------------------------- state -------------------------------- *)
VARIABLES
  USE_KAFKA,                  \* config.USE_KAFKA, set from --kafka
  CUMULATIVE_JSON_ITERATIONS, \* config.CUMULATIVE_JSON_ITERATIONS
  files,                      \* the disk: path -> content of the file
  pending_deliveries,         \* KafkaManager.pending_deliveries
  producer,                   \* KafkaManager.producer: "none" or "live"
  available,                  \* KafkaManager.available
  queue,                      \* messages produced and not yet reported, per batch
  last_crawled_times,         \* EitaaCrawler.last_crawled_times
  pc,                         \* where crawl_new_messages_and_bios / run stands
  i,                          \* index of the channel the cycle stands at
  clock,                      \* the wall clock, one tick per crawl cycle
  run,                        \* number of the running process (1 = first start)
  channel_id,                 \* the channel processed last
  last_time,                  \* its checkpoint when processing began
  existing_messages,          \* what MessageHandler.load gave the orchestrator
  read_error,                 \* the files that load could not read
  extracted,                  \* the records the extractor returned for the page
  new_messages,               \* the records classified as new
  latest_time,                \* the advanced checkpoint candidate
  result,                     \* how the processing of channel_id ended
  ever_stored,                \* history: records stored by the saves of earlier steps
  checkpoint_before,          \* history: the channel's checkpoint on disk when processing began
  watch,                      \* history: the batch handed to HybridStorageStrategy.save last
  call,                       \* history: the course of the latest HybridStorageStrategy.save
  faults,                     \* history: faults of the environment so far
  \* --- EitaaCrawler.run (specification RunSpec)
  args_interval,              \* args.interval of the command line, None if not given
  require_proxies,            \* self.require_proxies
  channels_given,             \* whether the channels loaded are a non-empty list
  interval_seconds,           \* self.interval_seconds, the default until __init__ assigns it
  run_pc,                     \* where run() stands
  checks,                     \* the dict perform_initial_checks built, None before
  loop_count,                 \* run()'s loop_count, counted modulo MaxLoops
  cycle_result,               \* how the latest cycle ended
  slept,                      \* the duration of the latest sleep of the main loop
  run_log,                    \* the level of what run() logged about the initial checks
  use_proxies,                \* the use_proxies the cycle hands to fetch_channel_data
  channels_file,              \* what config.CHANNELS_FILE holds when the process starts
  checkpoint_file,            \* what config.LAST_TIME_FILE holds when the process starts
  app_log,                    \* the errors EitaaCrawlerApplication.run logged
  loaded_times,               \* self.last_crawled_times as the constructor loaded it
  exit_status,                \* the exit status of the process, None while it runs
  \* --- NetworkManager.fetch_channel_data (specification FetchSpec)
  fetch_use_proxies,          \* the use_proxies argument of the crawler's fetches
  proxy_pool,                 \* ProxyManager.proxy_pool
  fetch_pc,                   \* where fetch_channel_data stands
  proxy,                      \* the local proxy, None for no proxy
  attempt,                    \* the loop variable attempt
  requests,                   \* history: the route of each request of the current call
  responses,                  \* history: what each request of the current call came to
  waits,                      \* history: the time.sleep made after each request
  fetch_result,               \* the first element of the pair returned
  fetch_error,                \* the second element of the pair returned
  last_refresh,               \* ProxyManager.last_refresh
  time_now,                   \* what time.time() returns
  refresh_call,               \* history: the latest call of refresh_proxy_pool
  passed,                     \* history: the candidates that passed test_proxy in the
                              \* latest refresh that replaced the pool
  \* --- the batches of crawl_new_messages_and_bios (specification BatchSpec)
  channels_n,                 \* len(self.channels)
  batch_i,                    \* the loop variable i of the loop over the batches
  batch,                      \* the batch, after its reduction
  nominal,                    \* current_batch_size, the length of the slice
  pos,                        \* the place in batch of the channel to process
  rate_limit_encountered,     \* the flag of the same name
  batch_pc,                   \* where the cycle stands
  crawled_channels,           \* the counter of the same name
  failed_channels,            \* the dict of the same name
  batch_delay,                \* the sleep made before the batch at hand
  attempts,                   \* history: the fetches of each channel in this cycle
  all_429,                    \* history: the channels whose fetch met 429 every time
  batch_failures,             \* the counter of the same name
  channel_sleep,              \* the sleep made after the channel processed last
  adaptive_delay,             \* the sleep made after the batch completed last
  \* --- the bios of crawl_new_messages_and_bios (specification BioSpec)
  bio_pc,                     \* where the cycle stands: in a batch, at its flush, done
  bio_batch,                  \* the number of the batch at hand
  bios,                       \* the list bios, the accumulator
  bio_extracted,              \* history: the channels whose bio was extracted in the cycle
  bio_saves                   \* history: per channel, the bio_handler.save calls that
                              \* returned and held its bio

crawl_vars == <<USE_KAFKA, CUMULATIVE_JSON_ITERATIONS, files, pending_deliveries,
          producer, available, queue, last_crawled_times, pc, i, clock, run,
          channel_id, last_time, existing_messages, read_error, extracted,
          new_messages, latest_time, result, ever_stored, checkpoint_before,
          watch, call, faults>>

run_vars == <<args_interval, require_proxies, channels_given, interval_seconds,
              run_pc, checks, loop_count, cycle_result, slept, run_log, use_proxies,
              channels_file, checkpoint_file, app_log, loaded_times, exit_status>>

\* the variables the crawl cycle (specification Spec) leaves alone
fetch_vars == <<fetch_use_proxies, proxy_pool, fetch_pc, proxy, attempt, requests,
                waits, responses, fetch_result, fetch_error, last_refresh, time_now,
                refresh_call, passed>>

batch_vars == <<channels_n, batch_i, batch, nominal, pos, rate_limit_encountered,
                batch_pc, crawled_channels, failed_channels, batch_delay, attempts,
                all_429, batch_failures, channel_sleep, adaptive_delay>>

bio_vars == <<bio_pc, bio_batch, bios, bio_extracted, bio_saves>>

aside == <<run_vars, fetch_vars, batch_vars, bio_vars>>

vars == <<crawl_vars, run_vars, fetch_vars, batch_vars, bio_vars>>

\* The part of the state the storage strategies and the broker client work
\* on, as one value: exc tells that the call raised, ret is its return value.
World ==
  [files |-> files, pending |-> pending_deliveries, producer |-> producer,
   available |-> available, queue |-> queue, watch |-> watch, call |-> call,
   faults |-> faults, exc |-> FALSE, ret |-> TRUE]

Fault(w) == [w EXCEPT !.faults = @ + 1]
Affordable(ws) == {w \in ws : w.faults <= MaxFaults}

\* no HybridStorageStrategy.save was called yet
NoCall == [path |-> LAST_TIME_FILE, log |-> <<>>, failure |-> "none",
           ret |-> TRUE, exc |-> FALSE]

NoWatch == [active |-> FALSE, path |-> LAST_TIME_FILE, outstanding |-> 0, all_ok |-> TRUE]

(* ------------------------ KafkaManager (broker) ----------------------- *)
\* KafkaManager.track_file_for_deletion: self.pending_deliveries[msg_key] = filepath
track_file_for_deletion(w, msg_key, filepath) ==
  [w EXCEPT !.pending =
     IF HasKey(@, msg_key)
       THEN [k \in DOMAIN @ |-> IF @[k][1] = msg_key THEN <<msg_key, filepath>> ELSE @[k]]
       ELSE Append(@, <<msg_key, filepath>>)]

\* KafkaManager.delivery_report(err, msg): one delivery callback
delivery_report(w, err, msg_key) ==
  IF err
    THEN IF HasKey(w.pending, msg_key)
           THEN [w EXCEPT !.pending = Pop(@, msg_key)]
           ELSE w
    ELSE IF HasKey(w.pending, msg_key)
           THEN [w EXCEPT !.files = Del(@, Lookup(w.pending, msg_key)),
                          !.pending = Pop(@, msg_key)]
           ELSE w

\* The delivery reports one flush brings for one queued batch: j of its
\* outstanding messages are reported, the first as first_ok says and the
\* others as rest_ok says.  (All messages of a batch carry one key, and the
\* first report of a key pops its entry, so what the later reports of the
\* same flush say changes nothing the code reads.)
EntryOutcomes(e) ==
  {[j |-> 0, first_ok |-> TRUE, rest_ok |-> TRUE]} \cup
  {[j |-> j, first_ok |-> f, rest_ok |-> r] :
     j \in 1..e.n, f \in BOOLEAN, r \in BOOLEAN}

Sensible(e, o) == (o.j >= 2 /\ e.w) \/ (o.rest_ok = o.first_ok)

Untouched(q) == [k \in DOMAIN q |-> [j |-> 0, first_ok |-> TRUE, rest_ok |-> TRUE]]

\* Reports come in the order of the queue: a batch is reported only when
\* the batches before it are reported in full.
RECURSIVE FlushOutcomes(_)
FlushOutcomes(q) ==
  IF q = <<>> THEN {<<>>}
  ELSE LET e == Head(q)
           os == {o \in EntryOutcomes(e) : Sensible(e, o)}
       IN {<<o>> \o rest : o \in {x \in os : x.j = e.n}, rest \in FlushOutcomes(Tail(q))}
          \cup {<<o>> \o Untouched(Tail(q)) : o \in {x \in os : x.j < e.n}}

Reports(o) ==
  [k \in 1..o.j |-> IF k = 1 THEN ~o.first_ok ELSE ~o.rest_ok]

RECURSIVE Deliver(_, _, _)
Deliver(w, msg_key, errs) ==
  IF errs = <<>> THEN w
  ELSE Deliver(delivery_report(w, Head(errs), msg_key), msg_key, Tail(errs))

FlushEntry(w, e, o) ==
  LET w1 == Deliver(w, e.key, Reports(o))
  IN IF e.w
       THEN [w1 EXCEPT !.watch.all_ok = @ /\ (o.j >= 1 => o.first_ok) /\ (o.j >= 2 => o.rest_ok),
                       !.watch.outstanding = @ - o.j]
       ELSE w1

Leftover(e, o) == IF o.j = e.n THEN <<>> ELSE <<[e EXCEPT !.n = @ - o.j]>>

RECURSIVE FlushQueue(_, _, _, _)
FlushQueue(w, q, o, left) ==
  IF q = <<>> THEN [w EXCEPT !.queue = left]
  ELSE FlushQueue(FlushEntry(w, Head(q), Head(o)), Tail(q), Tail(o),
                  left \o Leftover(Head(q), Head(o)))

\* a flush without fault: every queued message is reported as delivered
Clean(q, o) == \A k \in DOMAIN q : o[k].j = q[k].n /\ o[k].first_ok /\ o[k].rest_ok

\* self.producer.flush(timeout=10.0): the callbacks of the messages reported
\* within the time-out run, the others stay queued.
flush(w) ==
  {x \in {FlushQueue(IF Clean(w.queue, o) THEN w ELSE Fault(w), w.queue, o, <<>>) :
            o \in FlushOutcomes(w.queue)} :
     Len(x.queue) <= MaxInflight}

\* batch_key = f"batch_{hash(json.dumps(chunk[:1]))}"
BatchKey(chunk) == <<"batch", SubSeq(chunk, 1, 1)>>

\* msg_key = str(data.get("id", "")) + "_" + str(data.get("channel_id", "")),
\* and f"single_{hash(json.dumps(data))}" when both are missing
SingleKey(data) ==
  IF "id" \in DOMAIN data \/ "channel_id" \in DOMAIN data
    THEN <<"key", <<Get(data, "id"), Get(data, "channel_id")>>>>
    ELSE <<"single", data>>

\* self.producer.produce(...) of the messages of one chunk
Enqueue(w, msg_key, n, watched) ==
  IF n = 0 THEN w
  ELSE [w EXCEPT !.queue = Append(@, [key |-> msg_key, n |-> n, w |-> watched])]

\* The loop over the chunks of a list, up to the produce call of item x,
\* which raises (x = Len(data) + 1: no produce call raises).
RECURSIVE ProduceList(_, _, _, _, _, _)
ProduceList(w, data, file_path, x, watched, at) ==
  IF at > Len(data) \/ at > x THEN w
  ELSE LET chunk == SubSeq(data, at, Min(at + chunk_size - 1, Len(data)))
           batch_key == BatchKey(chunk)
           produced == Min(x - 1, at + Len(chunk) - 1) - at + 1
           w1 == track_file_for_deletion(w, batch_key, file_path)
       IN ProduceList(Enqueue(w1, batch_key, produced, watched),
                      data, file_path, x, watched, at + chunk_size)

Produce(w, data, is_list, file_path, x, watched) ==
  IF is_list
    THEN ProduceList(w, data, file_path, x, watched, 1)
    ELSE Enqueue(track_file_for_deletion(w, SingleKey(data), file_path),
                 SingleKey(data), x - 1, watched)

ItemCount(data, is_list) == IF is_list THEN Len(data) ELSE 1

\* an except branch that lets the exception go on to the caller (a variant
\* C15 must tell apart)
SendFailedRaises(w, keep, watched) ==
  [w EXCEPT !.available = FALSE, !.producer = "none", !.exc = TRUE,
            !.faults = @ + 1,
            !.queue = IF keep THEN @ ELSE <<>>,
            !.watch.all_ok = IF watched THEN FALSE ELSE @,
            !.call.failure = "produce"]

\* the except branch of send: the producer is given up; the messages it had
\* queued are either lost with it or are still reported later (the object
\* stays alive where config.PRODUCER was shared)
SendFailed(w, keep, watched) ==
  [w EXCEPT !.available = FALSE, !.producer = "none", !.ret = FALSE,
            !.faults = @ + 1,
            !.queue = IF keep THEN @ ELSE <<>>,
            !.watch.all_ok = IF watched THEN FALSE ELSE @,
            !.call.failure = "produce"]

\* KafkaManager.init_producer, when it succeeds
init_producer(w) == [w EXCEPT !.producer = "live", !.available = TRUE]

\* KafkaManager.send(topic, data, file_path): every way the call can end
send(w, data, is_list, file_path, watched) ==
  IF ~USE_KAFKA THEN {[w EXCEPT !.ret = FALSE]}
  ELSE
    LET unavailable ==
          IF w.producer = "none"
            THEN {[w EXCEPT !.available = FALSE, !.producer = "none", !.ret = FALSE,
                            !.faults = @ + 1,
                            !.watch.all_ok = IF watched THEN FALSE ELSE @,
                            !.call.failure = "init"]}
            ELSE {}
        w0 == IF w.producer = "none" THEN init_producer(w) ELSE w
        n == ItemCount(data, is_list)
        raised == {s \in {SendFailed(Produce(w0, data, is_list, file_path, x, watched), keep, watched) :
                            x \in 1..n, keep \in BOOLEAN} :
                     Len(s.queue) <= MaxInflight}
        flushed == UNION {flush([s EXCEPT !.ret = TRUE]) :
                            s \in {Produce(w0, data, is_list, file_path, n + 1, watched)}}
    IN Affordable(unavailable \cup raised \cup flushed)


(* -------------------------- storage strategies ------------------------ *)
\* LocalStorageStrategy.save: the file holds data, fully replaced
LocalStorageStrategy_save(w, data, filepath) ==
  [w EXCEPT !.files = Put(@, filepath, data)]

\* LocalStorageStrategy.load: None for a missing file
LocalStorageStrategy_load(fs, filepath) ==
  IF filepath \in DOMAIN fs THEN Some(fs[filepath]) ELSE None

\* LocalStorageStrategy.delete
LocalStorageStrategy_delete(w, filepath) ==
  [w EXCEPT !.files = IF filepath \in DOMAIN @ THEN Del(@, filepath) ELSE @]

\* KafkaStorageStrategy.delete: drops the first pending entry of the path
KafkaStorageStrategy_delete(w, filepath) ==
  LET p == w.pending
      hits == {k \in DOMAIN p : p[k][2] = filepath}
      first == CHOOSE k \in hits : \A m \in hits : k <= m
  IN IF hits = {} THEN w
     ELSE [w EXCEPT !.pending = SubSeq(p, 1, first - 1) \o SubSeq(p, first + 1, Len(p))]

\* HybridStorageStrategy.delete
HybridStorageStrategy_delete(w, filepath) ==
  KafkaStorageStrategy_delete(LocalStorageStrategy_delete(w, filepath), filepath)

\* history: the batch of the latest call with forwarding enabled is the
\* watched one; the messages of earlier batches are no longer followed
StartWatch(w, data, is_list, filepath) ==
  [w EXCEPT !.watch = [active |-> TRUE, path |-> filepath,
                       outstanding |-> ItemCount(data, is_list), all_ok |-> TRUE],
            !.queue = [k \in DOMAIN @ |-> [@[k] EXCEPT !.w = FALSE]]]

\* history: a call of HybridStorageStrategy.save begins, one of its steps
\* (the local write, the call of kafka_strategy.save) is taken, it ends
StartCall(w, filepath) == [w EXCEPT !.call = [NoCall EXCEPT !.path = filepath]]
Logged(w, event) == [w EXCEPT !.call.log = Append(@, event)]
EndCall(w) == [w EXCEPT !.call.ret = w.ret, !.call.exc = w.exc]

\* a save that hands the batch to the broker publisher before it writes the
\* file (a variant C11 must tell apart)
HybridStorageStrategy_savePublishFirst(w, data, is_list, filepath) ==
  {EndCall(Logged(LocalStorageStrategy_save(s, data, filepath), "write")) :
     s \in send(Logged(StartWatch(StartCall(w, filepath), data, is_list, filepath), "publish"),
                data, is_list, filepath, TRUE)}

\* HybridStorageStrategy.save(data, filepath): every way the call can end.
\* The local write either raises (nothing is written) or replaces the file;
\* then the batch goes to the broker publisher if config.USE_KAFKA.
HybridStorageStrategy_save(w, data, is_list, filepath) ==
  LET w0 == StartCall(w, filepath)
      w1 == Logged(LocalStorageStrategy_save(w0, data, filepath), "write")
  IN {EndCall(s) :
        s \in Affordable({[Logged(w0, "write_raised") EXCEPT !.exc = TRUE, !.faults = @ + 1]})
               \cup (IF USE_KAFKA
                       THEN send(Logged(StartWatch(w1, data, is_list, filepath), "publish"),
                                 data, is_list, filepath, TRUE)
                       ELSE {[w1 EXCEPT !.ret = TRUE]})}

(* ---------------------------- MessageHandler -------------------------- *)
\* os.listdir(channel_dir): the snapshot files of the channel
Snapshots(fs, ch) == {p \in DOMAIN fs : p[1] = "messages" /\ p[2] = ch}

\* sorted(files, reverse=True)[0]
LatestFile(snaps) == CHOOSE p \in snaps : \A q \in snaps : q[3] <= p[3]

\* storage_strategy.load of a file that may be unreadable: the exception is
\* caught in LocalStorageStrategy.load and None is returned
ReadFile(fs, unreadable, filepath) ==
  IF filepath \in unreadable THEN None ELSE LocalStorageStrategy_load(fs, filepath)

\* MessageHandler.load: the cumulative file if it exists and gives data, else
\* what the snapshot whose name sorts last gives (None if unreadable), else []
MessageHandler_load(fs, ch, unreadable) ==
  LET legacy_file == LegacyFile(ch)
      snaps == Snapshots(fs, ch)
      data == ReadFile(fs, unreadable, legacy_file)
  IN IF data # None /\ data[1] # <<>>
       THEN data
       ELSE IF snaps # {} THEN ReadFile(fs, unreadable, LatestFile(snaps))
            ELSE Some(<<>>)

\* crawler.py 110-116: a load that gives None makes the comprehension raise,
\* and the except branch takes the existing collection to be empty
LoadExisting(fs, ch, unreadable) ==
  LET loaded == MessageHandler_load(fs, ch, unreadable)
  IN IF loaded = None THEN <<>> ELSE loaded[1]

RECURSIVE DeleteAll(_, _)
DeleteAll(w, paths) ==
  IF paths = {} THEN w
  ELSE LET p == CHOOSE q \in paths : \A r \in paths : q[3] <= r[3]
       IN DeleteAll(HybridStorageStrategy_delete(w, p), paths \ {p})

\* MessageHandler.cleanup: sorted_files[:-N] are deleted when more than N exist
MessageHandler_cleanup(w, ch) ==
  LET snaps == Snapshots(w.files, ch)
      N == CUMULATIVE_JSON_ITERATIONS
      files_to_delete == {p \in snaps : Cardinality({q \in snaps : q[3] > p[3]}) >= N}
  IN IF N <= 0 \/ Cardinality(snaps) <= N THEN w
     ELSE DeleteAll(w, files_to_delete)

\* MessageHandler.save(channel_id, messages): snapshot file, then the
\* cumulative file unless the setting is 0, then cleanup if it is positive
MessageHandler_save(w, ch, messages, now) ==
  LET first == HybridStorageStrategy_save(w, messages, TRUE, TimestampedFile(ch, now))
      second(s) == IF s.exc \/ CUMULATIVE_JSON_ITERATIONS = 0 THEN {s}
                   ELSE HybridStorageStrategy_save(s, messages, TRUE, LegacyFile(ch))
      third(s) == IF s.exc \/ CUMULATIVE_JSON_ITERATIONS <= 0 THEN s
                  ELSE MessageHandler_cleanup(s, ch)
  IN {third(s2) : s2 \in UNION {second(s1) : s1 \in first}}

(* ------------------------------ EitaaCrawler -------------------------- *)
\* _load_last_crawled_times: {} when the file is missing or empty
load_last_crawled_times(fs) ==
  LET data == LocalStorageStrategy_load(fs, LAST_TIME_FILE)
  IN IF data = None THEN EmptyDict
     ELSE [k \in DOMAIN data[1] |-> fromisoformat(data[1][k])]

\* the checkpoint of a channel as LAST_TIME_FILE holds it
DiskCheckpoint(fs, ch) == Get(load_last_crawled_times(fs), ch)

\* _save_last_crawled_times: times_to_save
times_to_save(times) == [k \in DOMAIN times |-> isoformat(times[k])]

\* a novelty test that looks at the id only (a variant C7 must tell apart)
IsNewById(msg, last, existing_ids) == msg.id \notin existing_ids

\* (not last_time or posted_time > last_time) and msg["id"] not in existing_ids
IsNew(msg, last, existing_ids) ==
  (last = None \/ fromisoformat(msg.posted_time) > last[1]) /\ msg.id \notin existing_ids

\* a candidate that is the posted time of the record appended last, without
\* the max (a variant C8 must tell apart)
NextLatestLast(latest, posted_time) == Some(posted_time)

\* latest_time = max(latest_time or posted_time, posted_time) if latest_time else posted_time
NextLatest(latest, posted_time) ==
  IF latest # None THEN Some(Max(latest[1], posted_time)) ELSE Some(posted_time)

\* a loop that appends every record with an unseen id and takes the posted
\* time of the record appended last as the candidate (a variant C5 must tell
\* apart)
RECURSIVE ScanMessagesLastWins(_, _, _, _, _)
ScanMessagesLastWins(raw_messages, ch, last, existing_ids, acc) ==
  IF raw_messages = <<>> THEN acc
  ELSE LET msg == extract_message_details(Head(raw_messages), ch)
           step == IF msg # None /\ msg[1].id \notin existing_ids
                     THEN [new_messages |-> Append(acc.new_messages, msg[1]),
                           latest_time |-> Some(fromisoformat(msg[1].posted_time))]
                     ELSE acc
       IN ScanMessagesLastWins(Tail(raw_messages), ch, last, existing_ids, step)

\* the loop over raw_messages: new_messages and latest_time
RECURSIVE ScanMessages(_, _, _, _, _)
ScanMessages(raw_messages, ch, last, existing_ids, acc) ==
  IF raw_messages = <<>> THEN acc
  ELSE LET msg == extract_message_details(Head(raw_messages), ch)
           step == IF msg # None /\ IsNew(msg[1], last, existing_ids)
                     THEN [new_messages |-> Append(acc.new_messages, msg[1]),
                           latest_time |-> NextLatest(acc.latest_time,
                                                      fromisoformat(msg[1].posted_time))]
                     ELSE acc
       IN ScanMessages(Tail(raw_messages), ch, last, existing_ids, step)

\* the records the extractor returns for a page, in page order
RECURSIVE Extracted(_, _)
Extracted(raw_messages, ch) ==
  IF raw_messages = <<>> THEN <<>>
  ELSE extract_message_details(Head(raw_messages), ch) \o Extracted(Tail(raw_messages), ch)

SetWorld(w) ==
  /\ files' = w.files
  /\ pending_deliveries' = w.pending
  /\ producer' = w.producer
  /\ available' = w.available
  /\ queue' = w.queue
  /\ watch' = w.watch
  /\ call' = w.call
  /\ faults' = w.faults

config == <<USE_KAFKA, CUMULATIVE_JSON_ITERATIONS>>
world == <<files, pending_deliveries, producer, available, queue, watch, call, faults>>
store == <<files, pending_deliveries, producer, available, queue, watch, call>>
locals == <<channel_id, last_time, existing_messages, read_error, extracted,
            new_messages, latest_time, checkpoint_before>>

ResetLocals ==
  /\ channel_id' = ""
  /\ last_time' = None
  /\ existing_messages' = <<>>
  /\ read_error' = {}
  /\ extracted' = <<>>
  /\ new_messages' = <<>>
  /\ latest_time' = None
  /\ checkpoint_before' = None
  /\ result' = "none"

\* run() is not looked at: its variables rest
RunIdle ==
  /\ args_interval = None
  /\ require_proxies = FALSE
  /\ channels_given = TRUE
  /\ interval_seconds = CRAWL_INTERVAL_SECONDS
  /\ run_pc = "running"
  /\ checks = None
  /\ loop_count = 1
  /\ cycle_result = "none"
  /\ slept = 0
  /\ run_log = "none"
  /\ use_proxies = FALSE
  /\ channels_file = "array"
  /\ checkpoint_file = [kind |-> "absent", entries |-> <<>>]
  /\ app_log = <<>>
  /\ loaded_times = EmptyDict
  /\ exit_status = None

\* the crawler after construction
CrawlInit ==
  /\ USE_KAFKA \in BOOLEAN
  /\ CUMULATIVE_JSON_ITERATIONS \in CumulativeChoices
  /\ files = EmptyDict
  /\ pending_deliveries = <<>>
  /\ producer \in IF USE_KAFKA THEN {"live", "none"} ELSE {"none"}
  /\ available = (producer = "live")
  /\ faults = IF USE_KAFKA /\ producer = "none" THEN 1 ELSE 0
  /\ queue = <<>>
  /\ last_crawled_times = load_last_crawled_times(files)
  /\ pc = "channel"
  /\ i = 1
  /\ clock = 1
  /\ run = 1
  /\ channel_id = ""
  /\ last_time = None
  /\ existing_messages = <<>>
  /\ read_error = {}
  /\ extracted = <<>>
  /\ new_messages = <<>>
  /\ latest_time = None
  /\ result = "none"
  /\ ever_stored = [c \in Range(Channels) |-> {}]
  /\ checkpoint_before = None
  /\ watch = NoWatch
  /\ call = NoCall

\* the crawl cycle is not looked at: its variables rest
CrawlIdle == CrawlInit /\ ~USE_KAFKA /\ CUMULATIVE_JSON_ITERATIONS = 0

\* fetch_channel_data is not looked at: its variables rest
FetchIdle ==
  /\ fetch_use_proxies = FALSE
  /\ proxy_pool = {}
  /\ fetch_pc = "idle"
  /\ proxy = None
  /\ attempt = 0
  /\ requests = <<>>
  /\ responses = <<>>
  /\ waits = <<>>
  /\ fetch_result = [messages |-> 0, soup |-> FALSE]
  /\ fetch_error = None
  /\ last_refresh = 0
  /\ time_now = REFRESH_INTERVAL
  /\ refresh_call = None
  /\ passed = {}

\* the batches are not looked at: their variables rest
BatchIdle ==
  /\ channels_n = 1
  /\ batch_i = 0
  /\ batch = <<>>
  /\ nominal = 0
  /\ pos = 1
  /\ rate_limit_encountered = FALSE
  /\ batch_pc = "batch"
  /\ crawled_channels = 0
  /\ failed_channels = EmptyDict
  /\ batch_delay = 0
  /\ attempts = [ch \in 1..1 |-> 0]
  /\ all_429 = {}
  /\ batch_failures = 0
  /\ channel_sleep = 0
  /\ adaptive_delay = 0

\* the bios are not looked at: their variables rest
BioIdle ==
  /\ bio_pc = "done"
  /\ bio_batch = 1
  /\ bios = <<>>
  /\ bio_extracted = {}
  /\ bio_saves = [ch \in {} |-> 0]

Init == CrawlInit /\ RunIdle /\ FetchIdle /\ BatchIdle /\ BioIdle

\* The files of the channel that cannot be read when it is processed: none,
\* or (one fault) the cumulative file, or every file of the channel.
ReadErrors(fs, ch) ==
  LET legacy == {LegacyFile(ch)} \cap DOMAIN fs
      all == legacy \cup Snapshots(fs, ch)
  IN IF faults < MaxFaults THEN {{}, legacy, all} ELSE {{}}

\* what the channel's loop body reads before it fetches (crawler.py 106-116)
BeginChannel(rerr) ==
  /\ pc = "channel"
  /\ channel_id' = Channels[i]
  /\ last_time' = Get(last_crawled_times, Channels[i])
  /\ read_error' = rerr
  /\ faults' = IF rerr # {} THEN faults + 1 ELSE faults
  /\ existing_messages' = LoadExisting(files, Channels[i], rerr)
  /\ checkpoint_before' = DiskCheckpoint(files, Channels[i])

\* The fetch gives an error or no data: the channel is recorded as failed.
FetchFailed ==
  \E rerr \in ReadErrors(files, Channels[i]) :
    /\ BeginChannel(rerr)
    /\ extracted' = <<>>
    /\ new_messages' = <<>>
    /\ latest_time' = last_time'
    /\ result' = "failed"
    /\ pc' = "done"
    /\ UNCHANGED <<config, store, last_crawled_times, i, clock, run, ever_stored, aside>>

\* The fetch gives a page: its fragments are extracted and classified.
ProcessPage ==
  \E rerr \in ReadErrors(files, Channels[i]), page \in Pages :
    /\ BeginChannel(rerr)
    /\ LET scan == ScanMessages(page, Channels[i], last_time', Ids(existing_messages'),
                                [new_messages |-> <<>>, latest_time |-> last_time'])
       IN /\ extracted' = Extracted(page, Channels[i])
          /\ new_messages' = scan.new_messages
          /\ latest_time' = scan.latest_time
          /\ result' = IF scan.new_messages = <<>> THEN "no_new" ELSE "saving"
          /\ pc' = IF scan.new_messages = <<>> THEN "done" ELSE "save"
    /\ UNCHANGED <<config, store, last_crawled_times, i, clock, run, ever_stored, aside>>

\* a try block that goes on to the checkpoint whether or not the save raised
\* (a variant C10 must tell apart)
AfterSaveAlways(raised) == "checkpoint"

\* where the try block of lines 208-216 goes after message_handler.save
AfterSave(raised) == IF raised THEN "done" ELSE "checkpoint"

\* a save of the new records alone (a variant C9 must tell apart)
MergedNewOnly(existing, new) == new

\* existing_messages.extend(new_messages)
Merged(existing, new) == existing \o new

\* existing_messages.extend(new_messages); self.message_handler.save(...)
SaveMessages ==
  /\ pc = "save"
  /\ \E s \in MessageHandler_save(World, channel_id,
                                  Merged(existing_messages, new_messages), clock) :
       /\ SetWorld(s)
       /\ pc' = AfterSave(s.exc)
       /\ result' = IF s.exc THEN "save_raised" ELSE "saving"
  /\ UNCHANGED <<config, last_crawled_times, i, clock, run, locals, ever_stored, aside>>

\* self.last_crawled_times[channel_id] = latest_time; self._save_last_crawled_times()
SaveCheckpoint ==
  /\ pc = "checkpoint"
  /\ last_crawled_times' = Put(last_crawled_times, channel_id, latest_time[1])
  /\ \E s \in HybridStorageStrategy_save(World, times_to_save(last_crawled_times'),
                                         FALSE, LAST_TIME_FILE) :
       /\ SetWorld(s)
       /\ result' = IF s.exc THEN "checkpoint_raised"
                    ELSE IF result = "save_raised" THEN "save_raised" ELSE "saved"
  /\ pc' = "done"
  /\ UNCHANGED <<config, i, clock, run, locals, ever_stored, aside>>

\* sleep(1), and the for loop over the channels moves on; after the last
\* channel the cycle ends
FinishChannel ==
  /\ pc = "done"
  /\ i' = IF i = Len(Channels) THEN 1 ELSE i + 1
  /\ pc' = IF i = Len(Channels) THEN "sleep" ELSE "channel"
  /\ ResetLocals
  /\ ever_stored' = IF result \in {"saved", "checkpoint_raised"}
                      THEN [ever_stored EXCEPT ![channel_id] =
                              @ \cup Range(Merged(existing_messages, new_messages))]
                      ELSE ever_stored
  /\ UNCHANGED <<config, world, last_crawled_times, clock, run, aside>>

\* run(): the cycle is over, sleep(self.interval_seconds), the next cycle starts
NextCycle ==
  /\ pc = "sleep"
  /\ clock < MaxCycles
  /\ clock' = clock + 1
  /\ pc' = "channel"
  /\ UNCHANGED <<config, world, last_crawled_times, i, run, locals, result, ever_stored, aside>>

\* The process ends while it sleeps and is started again: the handlers, the
\* broker client and the crawler are constructed anew.
Restart ==
  /\ pc = "sleep"
  /\ clock < MaxCycles
  /\ clock' = clock + 1
  /\ run' = run + 1
  /\ pc' = "channel"
  /\ pending_deliveries' = <<>>
  /\ queue' = <<>>
  /\ producer' \in IF USE_KAFKA THEN {"live"} \cup (IF faults < MaxFaults THEN {"none"} ELSE {})
                            ELSE {"none"}
  /\ available' = (producer' = "live")
  /\ faults' = IF USE_KAFKA /\ producer' = "none" THEN faults + 1 ELSE faults
  /\ last_crawled_times' = load_last_crawled_times(files)
  /\ UNCHANGED <<config, files, i, locals, result, ever_stored, watch, call, aside>>

Next ==
  \/ FetchFailed
  \/ ProcessPage
  \/ SaveMessages
  \/ SaveCheckpoint
  \/ FinishChannel
  \/ NextCycle
  \/ Restart

Spec == Init /\ [][Next]_vars

(* --------------------------- EitaaCrawler.run -------------------------- *)
\* the values of --interval the command line is given
IntervalChoices == {None, Some(-1), Some(0), Some(30), Some(59), Some(60), Some(61), Some(3600)}

\* Python's truth value of args.interval
Truthy(opt) == opt # None /\ opt[1] # 0

\* config.CRAWL_INTERVAL_SECONDS after EitaaCrawlerApplication.run has read --interval
ConfiguredInterval(opt) ==
  IF Truthy(opt)
    THEN IF opt[1] < MIN_INTERVAL THEN MIN_INTERVAL ELSE opt[1]
    ELSE CRAWL_INTERVAL_SECONDS

\* EitaaCrawler.__init__: interval_seconds or config.CRAWL_INTERVAL_SECONDS
EitaaCrawler_init(opt, configured) == IF Truthy(opt) THEN opt[1] ELSE configured

\* the variant of the interval test of run() that lets every positive interval through
BelowFloorPositive(seconds) == seconds < 1

\* run(): self.interval_seconds < 60
BelowFloor(seconds) == seconds < MIN_INTERVAL

\* the variant of perform_initial_checks that checks the proxies whatever the mandate
perform_initial_checksAlways(require, internet, users, proxy_ok) ==
  [Internet |-> internet, UsersFile |-> users, Proxy |-> proxy_ok]

\* NetworkManager.perform_initial_checks: the dict of the checks made, given the
\* outcome of each one (the crawler always hands a ProxyManager to the NetworkManager)
perform_initial_checks(require, internet, users, proxy_ok) ==
  IF require
    THEN [Internet |-> internet, UsersFile |-> users, Proxy |-> proxy_ok]
    ELSE [Internet |-> internet, UsersFile |-> users]

\* the value perform_initial_checks returns
ChecksPassed(dict, require) ==
  \A k \in DOMAIN dict : (k # "Proxy" \/ require) => dict[k]

\* the variant of the except branch of the main loop that lets the error end run()
OnCycleErrorExit(count) == [pc |-> "exited", delay |-> 0]

\* the except branch of the main loop: log, then sleep(300)
OnCycleError(count) == [pc |-> "sleeping", delay |-> RECOVERY_DELAY]

\* what config.CHANNELS_FILE can hold: no file, text that is not JSON, a JSON
\* value that is not an array, the empty array, an array of channel ids
ChannelsFiles == {"absent", "unparseable", "not_array", "empty_array", "array"}

\* EitaaCrawlerApplication.load_channels: the list returned and the errors logged
load_channels(file) ==
  [channels |-> IF file = "array" THEN Channels ELSE <<>>,
   errors |-> CASE file = "absent" -> <<"not found">>
                [] file = "unparseable" -> <<"parse failed">>
                [] file = "not_array" -> <<"must be a JSON array", "Channel load failed">>
                [] OTHER -> <<>>]

\* the JSON values a checkpoint file can give a channel: null, a string in
\* ISO format, another string, a number
JsonValues == {"null", "timestamp", "text", "number"}

\* what config.LAST_TIME_FILE can hold: no file, text that is not JSON, an
\* array, a mapping of channel ids to values
CheckpointFiles ==
  {[kind |-> k, entries |-> <<>>] : k \in {"absent", "unparseable", "array", "mapping"}}
    \cup {[kind |-> "array", entries |-> <<v>>] : v \in JsonValues}
    \cup {[kind |-> "mapping", entries |-> [c \in Range(Channels) |-> v]] : v \in JsonValues}

\* _load_last_crawled_times on a file of any content: storage_strategy.load
\* gives None for a missing or unparseable file; data that is falsy gives {};
\* data.items() raises on an array, datetime.fromisoformat on a string that
\* is no timestamp and on a number
EitaaCrawler_load_last_crawled_times(file) ==
  LET data == IF file.kind \in {"absent", "unparseable"} THEN None ELSE Some(file.entries)
  IN IF data = None \/ DOMAIN data[1] = {}
       THEN [raised |-> FALSE, times |-> EmptyDict]
     ELSE IF file.kind = "array"
       THEN [raised |-> TRUE, times |-> EmptyDict]
     ELSE IF \E k \in DOMAIN data[1] : data[1][k] \in {"text", "number"}
       THEN [raised |-> TRUE, times |-> EmptyDict]
     ELSE [raised |-> FALSE,
           times |-> [k \in DOMAIN data[1] |->
                        IF data[1][k] = "null" THEN None ELSE Some(data[1][k])]]

\* the process starts: EitaaCrawlerApplication.run is called
RunInit ==
  /\ CrawlIdle
  /\ BioIdle
  /\ FetchIdle
  /\ BatchIdle
  /\ args_interval \in IntervalChoices
  /\ require_proxies \in BOOLEAN
  /\ channels_file \in ChannelsFiles
  /\ checkpoint_file \in CheckpointFiles
  /\ channels_given = FALSE
  /\ interval_seconds = CRAWL_INTERVAL_SECONDS
  /\ run_pc = "app"
  /\ checks = None
  /\ loop_count = 0
  /\ cycle_result = "none"
  /\ slept = 0
  /\ run_log = "none"
  /\ use_proxies = FALSE
  /\ app_log = <<>>
  /\ loaded_times = EmptyDict
  /\ exit_status = None

\* EitaaCrawlerApplication.run up to the construction of the crawler: the
\* channels are loaded, and with no channel run() logs and returns, which
\* ends the process with exit status 0
ApplicationRun ==
  /\ run_pc = "app"
  /\ LET loaded == load_channels(channels_file)
     IN /\ channels_given' = (loaded.channels # <<>>)
        /\ app_log' = IF loaded.channels = <<>>
                         THEN Append(loaded.errors, "No channels to crawl")
                         ELSE loaded.errors
        /\ run_pc' = IF loaded.channels = <<>> THEN "returned" ELSE "construct"
        /\ exit_status' = IF loaded.channels = <<>> THEN Some(0) ELSE None
  /\ UNCHANGED <<crawl_vars, bio_vars, fetch_vars, batch_vars, args_interval, require_proxies,
                 interval_seconds, channels_file, checkpoint_file, loaded_times,
                 checks, loop_count, cycle_result, slept, run_log, use_proxies>>

\* EitaaCrawler.__init__, and the call of crawler.run() after it: an exception
\* of _load_last_crawled_times leaves the constructor and ends the process
\* with a traceback and exit status 1
Construct ==
  /\ run_pc = "construct"
  /\ interval_seconds' = EitaaCrawler_init(args_interval, ConfiguredInterval(args_interval))
  /\ LET loaded == EitaaCrawler_load_last_crawled_times(checkpoint_file)
     IN /\ loaded_times' = loaded.times
        /\ run_pc' = IF loaded.raised THEN "raised" ELSE "validate"
        /\ exit_status' = IF loaded.raised THEN Some(1) ELSE None
  /\ UNCHANGED <<crawl_vars, bio_vars, fetch_vars, batch_vars, args_interval, require_proxies,
                 channels_given, channels_file, checkpoint_file, app_log,
                 checks, loop_count, cycle_result, slept, run_log, use_proxies>>

\* run(): the validation of the settings
Validate ==
  /\ run_pc = "validate"
  /\ run_pc' = IF BelowFloor(interval_seconds) \/ ~channels_given THEN "exited" ELSE "checks"
  /\ exit_status' = IF run_pc' = "exited" THEN Some(1) ELSE None
  /\ UNCHANGED <<crawl_vars, bio_vars, fetch_vars, batch_vars, args_interval, require_proxies, channels_given, interval_seconds,
                 channels_file, checkpoint_file, app_log, loaded_times,
                 checks, loop_count, cycle_result, slept, run_log, use_proxies>>

\* run(): the initial checks, what is logged about them, and the entry of the
\* main loop (loop_count += 1, the first cycle starts)
InitialChecks ==
  /\ run_pc = "checks"
  /\ \E internet \in BOOLEAN, users \in BOOLEAN, proxy_ok \in BOOLEAN :
       LET dict == perform_initial_checks(require_proxies, internet, users, proxy_ok)
           ok == ChecksPassed(dict, require_proxies)
           fatal == ~ok /\ require_proxies
       IN /\ checks' = Some(dict)
          /\ run_log' = IF ok THEN "info" ELSE IF require_proxies THEN "error" ELSE "warning"
          /\ run_pc' = IF fatal THEN "exited" ELSE "running"
          /\ exit_status' = IF fatal THEN Some(1) ELSE None
          /\ loop_count' = IF fatal THEN 0 ELSE 1
          /\ use_proxies' = IF fatal THEN use_proxies ELSE require_proxies
  /\ UNCHANGED <<crawl_vars, bio_vars, fetch_vars, batch_vars, args_interval, require_proxies, channels_given, interval_seconds,
                 channels_file, checkpoint_file, app_log, loaded_times,
                 cycle_result, slept>>

\* the main loop: crawl_new_messages_and_bios returned, sleep(self.interval_seconds) begins
CycleCompleted ==
  /\ run_pc = "running"
  /\ cycle_result' = "completed"
  /\ run_pc' = "sleeping"
  /\ slept' = interval_seconds
  /\ UNCHANGED <<crawl_vars, bio_vars, fetch_vars, batch_vars, args_interval, require_proxies, channels_given, interval_seconds,
                 channels_file, checkpoint_file, app_log, loaded_times,
                 exit_status, checks, loop_count, run_log, use_proxies>>

\* the main loop: the cycle raised an Exception
CycleFailed ==
  /\ run_pc = "running"
  /\ cycle_result' = "failed"
  /\ run_pc' = OnCycleError(loop_count).pc
  /\ slept' = OnCycleError(loop_count).delay
  /\ UNCHANGED <<crawl_vars, bio_vars, fetch_vars, batch_vars, args_interval, require_proxies, channels_given, interval_seconds,
                 channels_file, checkpoint_file, app_log, loaded_times,
                 exit_status, checks, loop_count, run_log, use_proxies>>

\* the main loop: the sleep is over, loop_count += 1 and the next cycle starts;
\* its fetches are made with use_proxies = self.require_proxies
WakeUp ==
  /\ run_pc = "sleeping"
  /\ run_pc' = "running"
  /\ loop_count' = (loop_count % MaxLoops) + 1
  /\ use_proxies' = require_proxies
  /\ UNCHANGED <<crawl_vars, bio_vars, fetch_vars, batch_vars, args_interval, require_proxies, channels_given, interval_seconds,
                 channels_file, checkpoint_file, app_log, loaded_times,
                 exit_status, checks, cycle_result, slept, run_log>>

RunNext ==
  \/ ApplicationRun
  \/ Construct
  \/ Validate
  \/ InitialChecks
  \/ CycleCompleted
  \/ CycleFailed
  \/ WakeUp

\* a cycle ends, one way or the other, and a sleep ends: the loop body is
\* straight-line code between blocking calls that return
RunSpec ==
  /\ RunInit
  /\ [][RunNext]_vars
  /\ WF_vars(CycleCompleted \/ CycleFailed)
  /\ WF_vars(WakeUp)

(* -------------------- NetworkManager.fetch_channel_data ---------------- *)
\* the proxies the proxy lists can offer
Proxies == 1..MaxProxies

\* what one session.get and the reading of its response can come to: a page,
\* a page of another structure, a page whose parsing raises, an HTTP error
\* status, or an exception of the request
Responses == {"page", "empty_page", "bad_structure", "parse_raises",
              "404", "403", "429", "500", "503", "400",
              "ConnectionError", "Timeout", "Exception", "Exception429"}

\* the responses for which raise_for_status raises, and their status codes
ErrorStatuses == {"404", "403", "429", "500", "503", "400"}
StatusOf(resp) ==
  CASE resp = "404" -> 404 [] resp = "403" -> 403 [] resp = "429" -> 429
    [] resp = "500" -> 500 [] resp = "503" -> 503 [] resp = "400" -> 400

\* the text of an exception that names the status 429, as the session's
\* retry policy raises when it gives up on a rate-limited request
TEXT_429 == "Error: too many 429 error responses"

\* the first element of the pair returned on every failure
EmptyResult == [messages |-> 0, soup |-> FALSE]

\* what a refresh meets: the candidates the proxy lists give (none if every
\* source fails), the proxies that answer with status 200, those whose
\* observed address differs from the machine's own, and whether the
\* machine's own address can be found
Surroundings == [fetched : SUBSET Proxies, reachable : SUBSET Proxies,
                 foreign : SUBSET Proxies, local_ip : BOOLEAN]

\* ProxyManager.test_proxy: status 200 through the proxy, then an address
\* seen through the proxy that is not the machine's own, which must be known
test_proxy(p, env) == p \in env.reachable /\ env.local_ip /\ p \in env.foreign

\* the proxy manager's fields; tested is history, the candidates that passed
\* test_proxy in the call at hand, None while no test was run
ProxyManager == [pool |-> proxy_pool, last_refresh |-> last_refresh, tested |-> None]

\* the variant of the refresh that adds the tested candidates to the pool
refresh_proxy_poolAdds(pm, now, env) ==
  IF now - pm.last_refresh < REFRESH_INTERVAL /\ pm.pool # {}
    THEN pm
    ELSE LET new == {p \in env.fetched : test_proxy(p, env)}
         IN [pool |-> pm.pool \cup new, last_refresh |-> now, tested |-> Some(new)]

\* the variant of the refresh that keeps the old timestamp when no proxy passes
refresh_proxy_poolStampsFilled(pm, now, env) ==
  IF now - pm.last_refresh < REFRESH_INTERVAL /\ pm.pool # {}
    THEN pm
    ELSE LET new == {p \in env.fetched : test_proxy(p, env)}
         IN [pool |-> new, last_refresh |-> IF new = {} THEN pm.last_refresh ELSE now,
             tested |-> Some(new)]

\* ProxyManager.refresh_proxy_pool: nothing happens when the pool is
\* non-empty and the refresh interval has not passed, otherwise the pool
\* becomes the fetched candidates that pass test_proxy and the time is noted
refresh_proxy_pool(pm, now, env) ==
  IF now - pm.last_refresh < REFRESH_INTERVAL /\ pm.pool # {}
    THEN pm
    ELSE LET new == {p \in env.fetched : test_proxy(p, env)}
         IN [pool |-> new, last_refresh |-> now, tested |-> Some(new)]

\* what the history keeps of a call of refresh_proxy_pool
RefreshCall(pm, now, after) ==
  Some([now |-> now, before |-> [pool |-> pm.pool, last_refresh |-> pm.last_refresh],
        tested |-> after.tested])

\* ProxyManager.get_random_proxy: the manager after the refresh and the proxy
\* handed out, None when the pool is empty
get_random_proxy(pm, now, env) ==
  LET after == refresh_proxy_pool(pm, now, env)
  IN IF after.pool = {} THEN {[pm |-> after, proxy |-> None, call |-> RefreshCall(pm, now, after)]}
     ELSE {[pm |-> after, proxy |-> Some(x), call |-> RefreshCall(pm, now, after)] :
           x \in after.pool}

\* proxy = self.proxy_manager.get_random_proxy() if use_proxies and
\* self.proxy_manager else None
ChooseProxy(use, pm, now) ==
  IF use THEN UNION {get_random_proxy(pm, now, env) : env \in Surroundings}
         ELSE {[pm |-> pm, proxy |-> None, call |-> refresh_call]}

\* the fields of the proxy manager and the history after a choice of proxy
Chosen(c) ==
  /\ proxy_pool' = c.pm.pool
  /\ last_refresh' = c.pm.last_refresh
  /\ proxy' = c.proxy
  /\ refresh_call' = c.call
  /\ passed' = IF c.pm.tested # None THEN c.pm.tested[1] ELSE passed

\* proxies = {"http": proxy, "https": proxy} if proxy else None: how the
\* request is routed
Route(picked) == IF picked # None THEN "proxy" ELSE "direct"

Return(res, err) == [kind |-> "return", result |-> res, error |-> err]
Continue == [kind |-> "continue", result |-> EmptyResult, error |-> None]
Repick == [kind |-> "repick", result |-> EmptyResult, error |-> None]
Raise == [kind |-> "raise", result |-> EmptyResult, error |-> None]

\* the three except clauses of the request: retry with a proxy picked anew
\* while attempts are left, else return the error
OnRequestError(att, err) ==
  IF att < retries - 1 THEN Repick ELSE Return(EmptyResult, Some(err))

\* the variant of the last except clause that lets the exception go
OnOtherErrorRaises(att) == Raise

\* except Exception: the clause that catches what the first two do not,
\* the re-raised HTTPError included
OnOtherError(att) == OnRequestError(att, "Error")

\* the variant of the status policy that retries every error status
OnStatusRetries(status_code, att) ==
  IF status_code = 429 THEN Continue ELSE OnOtherError(att)

\* except requests.exceptions.HTTPError: the policy per status code
OnStatus(status_code, att) ==
  IF status_code = 404 THEN Return(EmptyResult, Some("Channel not found (404)"))
  ELSE IF status_code = 403 THEN Return(EmptyResult, Some("Access forbidden (403)"))
  ELSE IF status_code = 429 THEN Continue
  ELSE IF status_code >= 500 THEN Return(EmptyResult, Some("Server error"))
  ELSE OnOtherError(att)

\* the body of the for loop for one response
Handle(resp, att) ==
  CASE resp \in ErrorStatuses   -> OnStatus(StatusOf(resp), att)
    [] resp = "page"            -> Return([messages |-> 1, soup |-> TRUE], None)
    [] resp = "empty_page"      -> Return([messages |-> 0, soup |-> TRUE], None)
    [] resp = "bad_structure"   -> Return(EmptyResult, Some("Invalid or changed page structure"))
    [] resp = "parse_raises"    -> Return(EmptyResult, Some("Parse error"))
    [] resp = "Exception429"    -> OnRequestError(att, TEXT_429)
    [] resp = "ConnectionError" -> OnRequestError(att, "Connection error")
    [] resp = "Timeout"         -> OnRequestError(att, "Timeout")
    [] resp = "Exception"       -> OnOtherError(att)

\* time.sleep in the body of the for loop: min(60, (attempt + 1) * 20) after
\* status 429, (2 ** attempt) * 5 after a ConnectionError that is retried,
\* and no sleep in the other clauses
WaitAfter(resp, att) ==
  IF resp = "429" THEN Min(60, (att + 1) * 20)
  ELSE IF resp = "ConnectionError" /\ att < retries - 1 THEN (2 ^ att) * 5
  ELSE 0

\* the step of the proxy pool's clock
HalfInterval == REFRESH_INTERVAL \div 2

\* the times at which the next step can take place
Later(now) ==
  {now} \cup (IF now < REFRESH_INTERVAL + MaxTicks * HalfInterval
                THEN {now + HalfInterval} ELSE {})

\* the fields of the proxy manager and their history
pool_vars == <<proxy_pool, last_refresh, refresh_call, passed>>

\* the crawler is running: with proxies mandated the initial check_proxy has
\* refreshed the pool and found a proxy in it, without the mandate the pool
\* was never filled
FetchInit ==
  /\ CrawlIdle
  /\ BioIdle
  /\ RunIdle
  /\ BatchIdle
  /\ fetch_use_proxies \in BOOLEAN
  /\ proxy_pool \in IF fetch_use_proxies THEN (SUBSET Proxies) \ {{}} ELSE {{}}
  /\ fetch_pc = "idle"
  /\ proxy = None
  /\ attempt = 0
  /\ requests = <<>>
  /\ responses = <<>>
  /\ waits = <<>>
  /\ fetch_result = EmptyResult
  /\ fetch_error = None
  /\ time_now = REFRESH_INTERVAL
  /\ last_refresh = IF fetch_use_proxies THEN time_now ELSE 0
  /\ refresh_call = None
  /\ passed = proxy_pool

\* fetch_channel_data is called: the proxy is chosen before the loop
FetchBegin ==
  /\ fetch_pc \in {"idle", "returned"}
  /\ time_now' \in Later(time_now)
  /\ \E c \in ChooseProxy(fetch_use_proxies, ProxyManager, time_now') : Chosen(c)
  /\ fetch_pc' = "request"
  /\ attempt' = 0
  /\ requests' = <<>>
  /\ responses' = <<>>
  /\ waits' = <<>>
  /\ fetch_result' = EmptyResult
  /\ fetch_error' = None
  /\ UNCHANGED <<crawl_vars, bio_vars, run_vars, batch_vars, fetch_use_proxies>>

\* one pass of the for loop: the request goes out, its response is handled,
\* and the loop goes on, returns, or is left with "Max retries reached"
Attempt ==
  /\ fetch_pc = "request"
  /\ time_now' \in Later(time_now)
  /\ requests' = Append(requests, Route(proxy))
  /\ \E resp \in Responses :
       LET h == Handle(resp, attempt) IN
         /\ responses' = Append(responses, resp)
         /\ waits' = Append(waits, WaitAfter(resp, attempt))
         /\ CASE h.kind = "return" ->
                   /\ fetch_pc' = "returned"
                   /\ fetch_result' = h.result
                   /\ fetch_error' = h.error
                   /\ UNCHANGED <<attempt, proxy, pool_vars>>
              [] h.kind = "raise" ->
                   /\ fetch_pc' = "raised"
                   /\ UNCHANGED <<attempt, proxy, pool_vars, fetch_result, fetch_error>>
              [] h.kind \in {"continue", "repick"} ->
                   /\ IF h.kind = "repick"
                        THEN \E c \in ChooseProxy(fetch_use_proxies, ProxyManager, time_now') :
                               Chosen(c)
                        ELSE UNCHANGED <<proxy, pool_vars>>
                   /\ attempt' = attempt + 1
                   /\ IF attempt + 1 < retries
                        THEN /\ fetch_pc' = "request"
                             /\ UNCHANGED <<fetch_result, fetch_error>>
                        ELSE /\ fetch_pc' = "returned"
                             /\ fetch_result' = EmptyResult
                             /\ fetch_error' = Some("Max retries reached")
  /\ UNCHANGED <<crawl_vars, bio_vars, run_vars, batch_vars, fetch_use_proxies>>

FetchNext ==
  \/ FetchBegin
  \/ Attempt

FetchSpec == FetchInit /\ [][FetchNext]_vars

(* ---------------- EitaaCrawler.crawl_new_messages_and_bios ------------- *)
\* the lengths of self.channels looked at; the channels are 1..channels_n
ChannelCounts == {2, 12, 14, 18, 24}

\* fetch_channel_data as a function of what its requests come to: the pair
\* returned, or an exception that leaves it
RECURSIVE FetchFrom(_, _)
FetchFrom(rs, att) ==
  IF att >= retries
    THEN [result |-> EmptyResult, error |-> Some("Max retries reached"), raised |-> FALSE]
    ELSE LET h == Handle(rs[att + 1], att)
         IN CASE h.kind = "return" -> [result |-> h.result, error |-> h.error, raised |-> FALSE]
              [] h.kind = "raise" -> [result |-> EmptyResult, error |-> None, raised |-> TRUE]
              [] OTHER -> FetchFrom(rs, att + 1)

\* what a call of fetch_channel_data can come to, with the note whether
\* every one of its requests was answered with status 429
FetchOutcomes ==
  {[pair |-> FetchFrom(rs, 0), all_429 |-> \A k \in 1..retries : rs[k] = "429"] :
     rs \in [1..retries -> Responses]}

\* the error texts in which Python finds the substring "429"
Texts429 == {TEXT_429}

\* error and "429" in error
Has429(error) == error # None /\ error[1] \in Texts429

\* not raw_messages or not soup
NoData(res) == res.messages = 0 \/ ~res.soup

\* self.channels[i:i + batch_size], i counted from 0
Slice(from, n) == [k \in 1..(Min(from + batch_size, n) - from) |-> from + k]

\* the variant of the reduction that halves whatever the size
ReducedSizeHalves(size, flag) == IF flag /\ size > 3 THEN size \div 2 ELSE size

\* len(batch) after lines 94-99: max(3, current_batch_size // 2) when the
\* flag is set and the batch has more than 3 channels
ReducedSize(size, flag) == IF flag /\ size > 3 THEN Max(3, size \div 2) ELSE size

\* the variant of the test of lines 239-242 that delays at one half already
AdaptiveDelayAtHalf(failures, size) ==
  IF 2 * failures >= size THEN Min(60, failures * 5) ELSE 0

\* lines 239-242: the sleep after a batch, min(60, batch_failures * 5) when
\* batch_failures > len(batch) / 2, none otherwise
AdaptiveDelay(failures, size) ==
  IF 2 * failures > size THEN Min(60, failures * 5) ELSE 0

\* line 227 and the continue statements of lines 143 and 152: sleep(1) ends
\* the loop body, which a channel recorded as failed leaves before
SleepAfter(failed) == IF failed THEN 0 ELSE POLITENESS_DELAY

\* the locals of crawl_new_messages_and_bios before the first batch
BatchStart ==
  /\ batch_i = 0
  /\ batch = <<>>
  /\ nominal = 0
  /\ pos = 1
  /\ rate_limit_encountered = FALSE
  /\ batch_pc = "batch"
  /\ crawled_channels = 0
  /\ failed_channels = EmptyDict
  /\ batch_delay = 0
  /\ attempts = [ch \in 1..channels_n |-> 0]
  /\ all_429 = {}
  /\ batch_failures = 0
  /\ channel_sleep = 0
  /\ adaptive_delay = 0

\* a cycle starts on the configured channels
BatchInit ==
  /\ CrawlIdle
  /\ BioIdle
  /\ RunIdle
  /\ FetchIdle
  /\ channels_n \in ChannelCounts
  /\ BatchStart

\* the head of the loop over the batches: the slice, its reduction and the
\* sleep(30) when the flag is set, then the flag is cleared
BeginBatch ==
  /\ batch_pc = "batch"
  /\ LET full == Slice(batch_i, channels_n)
         size == ReducedSize(Len(full), rate_limit_encountered)
     IN /\ nominal' = Len(full)
        /\ batch' = SubSeq(full, 1, size)
        /\ batch_delay' = IF rate_limit_encountered /\ Len(full) > 3
                            THEN RATE_LIMIT_DELAY ELSE 0
  /\ rate_limit_encountered' = FALSE
  /\ batch_failures' = 0
  /\ pos' = 1
  /\ batch_pc' = "channel"
  /\ UNCHANGED <<crawl_vars, bio_vars, run_vars, fetch_vars, channels_n, batch_i, crawled_channels,
                 failed_channels, attempts, all_429, channel_sleep, adaptive_delay>>

\* the body of the loop over the channels of the batch: the fetch, the
\* rate-limit test, the record of a failure or the processing of the page;
\* after the last channel of the batch the loop over the batches moves on
ProcessChannel ==
  /\ batch_pc = "channel"
  /\ \E o \in FetchOutcomes :
       LET ch == batch[pos]
           failed == o.pair.raised \/ NoData(o.pair.result)
           text == IF o.pair.raised THEN "Unexpected fetch error"
                   ELSE IF o.pair.error # None THEN o.pair.error[1] ELSE "No data"
       IN /\ failed => Cardinality(DOMAIN failed_channels) < MaxFailed
          /\ attempts' = [attempts EXCEPT ![ch] = @ + 1]
          /\ all_429' = IF o.all_429 THEN all_429 \cup {ch} ELSE all_429
          /\ rate_limit_encountered' =
               (rate_limit_encountered \/ (~o.pair.raised /\ Has429(o.pair.error)))
          /\ failed_channels' = IF failed THEN Put(failed_channels, ch, text)
                                          ELSE failed_channels
          /\ crawled_channels' = IF failed THEN crawled_channels ELSE crawled_channels + 1
          /\ batch_failures' = IF failed THEN batch_failures + 1 ELSE batch_failures
          /\ channel_sleep' = SleepAfter(failed)
  /\ IF pos < Len(batch)
       THEN /\ pos' = pos + 1
            /\ UNCHANGED <<batch_i, batch_pc, adaptive_delay>>
       ELSE /\ pos' = pos
            /\ adaptive_delay' = AdaptiveDelay(batch_failures', Len(batch))
            /\ batch_i' = batch_i + batch_size
            /\ batch_pc' = IF batch_i + batch_size < channels_n THEN "batch" ELSE "summary"
  /\ UNCHANGED <<crawl_vars, bio_vars, run_vars, fetch_vars, channels_n, batch, nominal, batch_delay>>

\* the summary is logged, the cycle is over; the next one starts afresh
NextCrawl ==
  /\ batch_pc = "summary"
  /\ batch_i' = 0
  /\ batch' = <<>>
  /\ nominal' = 0
  /\ pos' = 1
  /\ rate_limit_encountered' = FALSE
  /\ batch_pc' = "batch"
  /\ crawled_channels' = 0
  /\ failed_channels' = EmptyDict
  /\ batch_delay' = 0
  /\ attempts' = [ch \in 1..channels_n |-> 0]
  /\ all_429' = {}
  /\ batch_failures' = 0
  /\ channel_sleep' = 0
  /\ adaptive_delay' = 0
  /\ UNCHANGED <<crawl_vars, bio_vars, run_vars, fetch_vars, channels_n>>

BatchNext ==
  \/ BeginBatch
  \/ ProcessChannel
  \/ NextCrawl

BatchSpec == BatchInit /\ [][BatchNext]_vars

(* ---------------------- the bios of a crawl cycle --------------------- *)
\* config.BIO_FILE, the cumulative file of the bios
BIO_FILE == <<"bios_legacy", "", 0>>

\* os.listdir(self.base_dir): the snapshot files of the bios, the file
\* bios_{timestamp}.json being <<"bios", "", timestamp>>
BioSnapshots(fs) == {p \in DOMAIN fs : p[1] = "bios"}

\* BioHandler.cleanup: sorted_files[:-N] are deleted when more than N exist
BioHandler_cleanup(w) ==
  LET snaps == BioSnapshots(w.files)
      N == CUMULATIVE_JSON_ITERATIONS
      files_to_delete == {p \in snaps : Cardinality({q \in snaps : q[3] > p[3]}) >= N}
  IN IF N <= 0 \/ Cardinality(snaps) <= N THEN w
     ELSE DeleteAll(w, files_to_delete)

\* BioHandler.save(bios): the list given is written to a snapshot file, then
\* to the cumulative file unless the setting is 0, then cleanup if it is
\* positive; nothing that was stored before is read
BioHandler_save(w, data, now) ==
  LET first == HybridStorageStrategy_save(w, data, TRUE, <<"bios", "", now>>)
      second(s) == IF s.exc \/ CUMULATIVE_JSON_ITERATIONS = 0 THEN {s}
                   ELSE HybridStorageStrategy_save(s, data, TRUE, BIO_FILE)
      third(s) == IF s.exc \/ CUMULATIVE_JSON_ITERATIONS <= 0 THEN s
                  ELSE BioHandler_cleanup(s)
  IN {third(s2) : s2 \in UNION {second(s1) : s1 \in first}}

\* BioHandler.load(): the cumulative file if it gives data, else the
\* snapshot whose name sorts last if it gives data, else []
BioHandler_load(fs) ==
  LET data == LocalStorageStrategy_load(fs, BIO_FILE)
      snaps == BioSnapshots(fs)
      latest == LocalStorageStrategy_load(fs, LatestFile(snaps))
  IN IF data # None /\ data[1] # <<>> THEN data[1]
     ELSE IF snaps # {} /\ latest # None /\ latest[1] # <<>> THEN latest[1]
     ELSE <<>>

\* the bio entries extract_channel_bio gives for the channels chosen,
\* appended in the order of the batch
RECURSIVE BioEntries(_)
BioEntries(chs) ==
  IF chs = {} THEN <<>>
  ELSE LET ch == CHOOSE c \in chs : \A d \in chs : c <= d
       IN <<[channel_id |-> ch, title |-> "title"]>> \o BioEntries(chs \ {ch})

\* a cycle starts: bios = []
BioInit ==
  /\ CrawlInit
  /\ RunIdle
  /\ FetchIdle
  /\ BatchIdle
  /\ bio_pc = "batch"
  /\ bio_batch = 1
  /\ bios = <<>>
  /\ bio_extracted = {}
  /\ bio_saves = [ch \in 1..(MaxBatches * BioBatchSize) |-> 0]

\* the loop over the channels of a batch, for the bios: a channel whose page
\* was fetched and whose bio was extracted appends its entry to bios; batch
\* b holds the channels (b - 1) * BioBatchSize + 1 .. b * BioBatchSize
ExtractBios ==
  /\ bio_pc = "batch"
  /\ \E got \in SUBSET (((bio_batch - 1) * BioBatchSize + 1)..(bio_batch * BioBatchSize)) :
       /\ bios' = bios \o BioEntries(got)
       /\ bio_extracted' = bio_extracted \cup got
  /\ bio_pc' = "flush"
  /\ UNCHANGED <<crawl_vars, run_vars, fetch_vars, batch_vars, bio_batch, bio_saves>>

\* lines 229-236: if bios is not empty it is handed to bio_handler.save and
\* cleared, and left as it is when the save raises; then the next batch
FlushBios ==
  /\ bio_pc = "flush"
  /\ IF bios = <<>>
       THEN UNCHANGED <<world, bios, bio_saves>>
       ELSE \E s \in BioHandler_save(World, bios, bio_batch) :
              /\ SetWorld(s)
              /\ bios' = IF s.exc THEN bios ELSE <<>>
              /\ bio_saves' = IF s.exc THEN bio_saves
                               ELSE [ch \in DOMAIN bio_saves |->
                                       IF \E k \in DOMAIN bios : bios[k].channel_id = ch
                                         THEN bio_saves[ch] + 1 ELSE bio_saves[ch]]
  /\ bio_batch' = IF bio_batch < MaxBatches THEN bio_batch + 1 ELSE bio_batch
  /\ bio_pc' = IF bio_batch < MaxBatches THEN "batch" ELSE "done"
  /\ UNCHANGED <<config, last_crawled_times, pc, i, clock, run, locals, result,
                 ever_stored, run_vars, fetch_vars, batch_vars, bio_extracted>>

BioNext ==
  \/ ExtractBios
  \/ FlushBios

BioSpec == BioInit /\ [][BioNext]_vars

(* ------------------------------ properties ---------------------------- *)
\* the states in which the page of channel_id has just been classified
Classified == pc = "save" \/ (pc = "done" /\ result = "no_new")

\* the states in which the save of channel_id's merged collection has completed
SaveCompleted == pc = "checkpoint" \/ (pc = "done" /\ result \in {"saved", "checkpoint_raised"})

NoDuplicateIds(msgs) == \A a, b \in DOMAIN msgs : a # b => msgs[a].id # msgs[b].id

\* C1: for the batch handed to HybridStorageStrategy.save with forwarding
\* enabled, in every state afterwards the batch's local file exists or the
\* broker has confirmed the delivery of every item published for it.
C1_FileOrDeliveryConfirmed ==
  watch.active =>
    \/ watch.path \in DOMAIN files
    \/ (watch.all_ok /\ watch.outstanding = 0)

\* C2: a record stored for a channel by an earlier cycle is never classified
\* as new again, also after a restart, with forwarding disabled or enabled
\* and every delivery confirmed (no fault of the environment).
C2_StoredNeverNewAgain ==
  (faults = 0 /\ channel_id \in DOMAIN ever_stored) =>
    \A k \in DOMAIN new_messages : new_messages[k] \notin ever_stored[channel_id]

\* C3: no record the extractor returns for a fetched page is discarded
\* unless it is already stored: a record that is neither in the channel's
\* stored collection nor was stored before is classified as new, whatever
\* its posted time relative to the checkpoint.
C3_NoExtractedRecordDropped ==
  Classified =>
    \A k \in DOMAIN extracted :
      (/\ extracted[k].id \notin Ids(LoadExisting(files, channel_id, {}))
       /\ extracted[k] \notin ever_stored[channel_id])
        => extracted[k] \in Range(new_messages)

\* C4: no stored collection of a channel (snapshot or cumulative file) holds
\* two records with the same id.
C4_NoDuplicateIdsStored ==
  \A p \in DOMAIN files :
    p[1] \in {"messages", "legacy"} => NoDuplicateIds(files[p])

\* a <= b for checkpoints, an absent checkpoint counting as lowest
AtMost(a, b) == a = None \/ (b # None /\ a[1] <= b[1])

\* C5: within a run of the process no channel's checkpoint ever decreases,
\* an absent checkpoint counting as lowest, whatever the fetches give and
\* however the saves and the broker fail.
C5_CheckpointNeverDecreases ==
  [][run' = run =>
       \A c \in Range(Channels) :
         AtMost(Get(last_crawled_times, c), Get(last_crawled_times', c))]_vars

\* a checkpoint that existed has been advanced by a later cycle
C5_Witness ==
  /\ pc = "done"
  /\ result = "saved"
  /\ last_time # None
  /\ Get(last_crawled_times, channel_id) = latest_time
  /\ latest_time[1] > last_time[1]

\* C6: after a successful ingest of a channel the checkpoint file exists and
\* holds the channel's advanced checkpoint.
C6_CheckpointFileHoldsCheckpoint ==
  (pc = "done" /\ result = "saved") =>
    /\ LAST_TIME_FILE \in DOMAIN files
    /\ DiskCheckpoint(files, channel_id) = latest_time

\* C7: the new set is exactly the extracted records whose id is absent from
\* the existing collection and whose posted time is strictly after the
\* checkpoint, or any posted time when the channel has no checkpoint.
C7_NoveltyRule ==
  Classified =>
    new_messages =
      SelectSeq(extracted,
                LAMBDA m : /\ m.id \notin Ids(existing_messages)
                           /\ (last_time = None
                                 \/ fromisoformat(m.posted_time) > last_time[1]))

\* a page with a record that is new and a record that is not, for a channel
\* that has a checkpoint and stored records
C7_Witness ==
  /\ pc = "save"
  /\ last_time # None
  /\ existing_messages # <<>>
  /\ Len(extracted) = 2
  /\ Len(new_messages) = 1

\* the maximum posted time among msgs (msgs not empty)
MaxPosted(msgs) ==
  LET times == {fromisoformat(msgs[k].posted_time) : k \in DOMAIN msgs}
  IN CHOOSE t \in times : \A u \in times : u <= t

\* C8: after new records were found and their save completed, the channel's
\* checkpoint is the maximum posted time among the new records; when there
\* is no new record the checkpoint is what it was.
C8_CheckpointIsMaxPosted ==
  pc = "done" =>
    /\ result \in {"saved", "checkpoint_raised"} =>
         /\ new_messages # <<>>
         /\ Get(last_crawled_times, channel_id) = Some(MaxPosted(new_messages))
    /\ result = "no_new" =>
         /\ new_messages = <<>>
         /\ Get(last_crawled_times, channel_id) = last_time

\* no checkpoint, records 1 and 2 of which the first is the later one: both
\* are stored
C8_Witness ==
  /\ pc = "done"
  /\ result = "saved"
  /\ last_time = None
  /\ Len(new_messages) = 2
  /\ new_messages[1].id = 1
  /\ new_messages[2].id = 2
  /\ fromisoformat(new_messages[1].posted_time) > fromisoformat(new_messages[2].posted_time)
  /\ TimestampedFile(channel_id, clock) \in DOMAIN files
  /\ files[TimestampedFile(channel_id, clock)] = new_messages

\* C9 as stated: when a fetch returns records of which some were stored
\* before, every record stored before is in the collection that is saved.
C9_StoredRecordsKept ==
  (/\ SaveCompleted
   /\ \E k \in DOMAIN extracted : extracted[k] \in ever_stored[channel_id]) =>
    ever_stored[channel_id] \subseteq Range(Merged(existing_messages, new_messages))

\* C9, amended: the collection a completed save writes for the channel is
\* the collection MessageHandler.load gave when processing began (empty if
\* the files could not be read or are no longer on disk) followed by exactly
\* the new records, none of which has an id of the loaded collection.
C9_SavedIsLoadedPlusNew ==
  [][(pc = "save" /\ pc' = "checkpoint") =>
       LET loaded == LoadExisting(files, channel_id, read_error)
           written == {TimestampedFile(channel_id, clock), LegacyFile(channel_id)}
       IN /\ Ids(new_messages) \cap Ids(loaded) = {}
          /\ \A f \in written \cap DOMAIN files' :
               files'[f] = loaded \o new_messages]_vars

\* ids 1 and 2 are stored and fetched again with a third record: the file
\* written holds the stored records followed by the new one
C9_Witness ==
  /\ pc = "checkpoint"
  /\ existing_messages # <<>>
  /\ \E k \in DOMAIN extracted : extracted[k] \in Range(existing_messages)
  /\ TimestampedFile(channel_id, clock) \in DOMAIN files
  /\ files[TimestampedFile(channel_id, clock)] = existing_messages \o new_messages

\* C10: while the save of the channel's merged collection has not completed,
\* and after it has raised, the channel's checkpoint in memory is what it
\* was when processing began and the checkpoint file holds no other value
\* for the channel than it held then.
C10_CheckpointOnlyAfterSave ==
  (pc = "save" \/ (pc = "done" /\ result = "save_raised")) =>
    /\ Get(last_crawled_times, channel_id) = last_time
    /\ DiskCheckpoint(files, channel_id) \in {None, checkpoint_before}

\* the save of new records has raised
C10_Witness ==
  /\ pc = "done"
  /\ result = "save_raised"
  /\ new_messages # <<>>
  /\ latest_time # last_time

\* the course a call of HybridStorageStrategy.save may take
CallInOrder ==
  /\ call.log \in {<<>>, <<"write">>, <<"write_raised">>, <<"write", "publish">>}
  /\ call.log = <<"write", "publish">> => USE_KAFKA
  /\ call.log = <<"write_raised">> => call.exc

\* C11: in every HybridStorageStrategy.save the local write completes before
\* the broker publisher is called, the publisher is called only when
\* forwarding is enabled, and a local write that raises ends the call: the
\* save of the checkpoint then leaves the disk, the producer's queue and the
\* pending deliveries as they were.
C11_LocalWriteFirst ==
  [][/\ CallInOrder'
     /\ (pc = "checkpoint" /\ call'.log = <<"write_raised">>) =>
          UNCHANGED <<files, queue, pending_deliveries>>]_vars

\* with forwarding enabled, the write of the checkpoint file raised after the
\* channel's records were written and published
C11_Witness ==
  /\ USE_KAFKA
  /\ pc = "done"
  /\ result = "checkpoint_raised"
  /\ call.path = LAST_TIME_FILE
  /\ call.log = <<"write_raised">>

\* C12: with forwarding enabled, once every item of a save's snapshot batch
\* is reported: if all were delivered the snapshot file is deleted and no
\* pending entry names it, and if a delivery failed the file is on disk.
C12_FileFollowsReport ==
  (watch.active /\ watch.path[1] = "messages" /\ watch.outstanding = 0) =>
    IF watch.all_ok
      THEN /\ watch.path \notin DOMAIN files
           /\ \A k \in DOMAIN pending_deliveries : pending_deliveries[k][2] # watch.path
      ELSE watch.path \in DOMAIN files

\* C13: every path held in the pending-delivery map has a file on disk.
C13_PendingPathsOnDisk ==
  \A k \in DOMAIN pending_deliveries : pending_deliveries[k][2] \in DOMAIN files

\* C14: when a save that called the broker publisher has returned success,
\* every delivery callback has run: the producer holds no unreported message
\* and no pending entry names the file of that save.
C14_CallbacksRunBeforeReturn ==
  (call.log = <<"write", "publish">> /\ call.ret /\ ~call.exc) =>
    /\ queue = <<>>
    /\ \A k \in DOMAIN pending_deliveries : pending_deliveries[k][2] # call.path

\* C15: when the producer cannot be constructed or a publish raises, the
\* save returns failure, raises nothing, and the file written for that save
\* is on disk.
C15_BrokerFailureKeepsFile ==
  call.failure # "none" =>
    /\ ~call.ret
    /\ ~call.exc
    /\ call.path \in DOMAIN files

\* the publish of a channel's snapshot raised
C15_Witness ==
  /\ call.failure = "produce"
  /\ call.path[1] = "messages"
  /\ call.log = <<"write", "publish">>

\* the states of run() in which the main loop is running
InMainLoop == run_pc \in {"running", "sleeping"}

\* C16: once the main loop has started, every cycle is followed by another
\* one: a cycle that completes is followed by a sleep of the configured
\* interval, a cycle that fails by the recovery delay, and after either sleep
\* a new cycle starts; no cycle's error ends the loop.
C16_LoopGoesOn ==
  /\ \A n \in 1..MaxLoops :
       (run_pc = "running" /\ loop_count = n) ~>
         (run_pc = "running" /\ loop_count = (n % MaxLoops) + 1)
  /\ [][run_pc = "running" =>
          /\ run_pc' = "sleeping"
          /\ cycle_result' \in {"completed", "failed"}
          /\ slept' = IF cycle_result' = "completed" THEN interval_seconds
                                                     ELSE RECOVERY_DELAY]_vars
  /\ [][run_pc = "sleeping" => run_pc' = "running" /\ loop_count' # loop_count]_vars

\* a cycle that started after the recovery delay of a failed one
C16_Witness ==
  /\ run_pc = "running"
  /\ loop_count = 2
  /\ cycle_result = "failed"
  /\ slept = RECOVERY_DELAY

\* C17: with an interval below the floor of 60 seconds run() stops before
\* any initial check and before any cycle; no cycle runs with such an interval.
C17_FloorRefused ==
  /\ interval_seconds < MIN_INTERVAL =>
       /\ run_pc \in {"raised", "validate", "exited"}
       /\ checks = None
       /\ loop_count = 0
  /\ InMainLoop => interval_seconds >= MIN_INTERVAL

\* run() has refused a positive interval below the floor
C17_Witness ==
  /\ run_pc = "exited"
  /\ channels_given
  /\ args_interval = Some(interval_seconds)
  /\ interval_seconds \in 1..(MIN_INTERVAL - 1)

\* C18: with proxies mandated a failed proxy check ends the process before
\* the first cycle; without the mandate no proxy check is made, a failed
\* initial check is logged as a warning only, and the main loop starts, its
\* fetches asking for no proxy.
C18_StartupProxyChecks ==
  checks # None =>
    IF require_proxies
      THEN ~checks[1].Proxy => (run_pc = "exited" /\ loop_count = 0)
      ELSE /\ "Proxy" \notin DOMAIN checks[1]
           /\ InMainLoop
           /\ ~use_proxies
           /\ (~checks[1].Internet \/ ~checks[1].UsersFile) => run_log = "warning"

\* without the mandate an initial check failed and the main loop started
C18_Witness ==
  /\ ~require_proxies
  /\ checks # None
  /\ ~checks[1].Internet
  /\ run_log = "warning"
  /\ run_pc = "running"
  /\ loop_count = 1

WellFormedPair ==
  \/ fetch_error = None /\ fetch_result.soup
  \/ fetch_error # None /\ fetch_result = EmptyResult

\* C20: whatever the responses and errors, fetch_channel_data makes at most
\* retries requests, each pass of its loop either returns or uses up one
\* attempt, it returns a page with no error or the empty result with an
\* error, and it raises nothing.
C20_FetchReturnsPair ==
  /\ [](/\ fetch_pc \in {"idle", "request", "returned"}
        /\ Len(requests) <= retries
        /\ fetch_pc = "request" => attempt < retries /\ Len(requests) = attempt
        /\ fetch_pc = "returned" => WellFormedPair)
  /\ [][fetch_pc = "request" =>
          \/ fetch_pc' = "returned"
          \/ fetch_pc' = "request" /\ attempt' = attempt + 1]_vars

\* every attempt was used up on errors of the request and the typed error
\* came back
C20_Witness ==
  /\ fetch_pc = "returned"
  /\ Len(requests) = retries
  /\ fetch_error = Some("Error")
  /\ fetch_result = EmptyResult

\* C21: a response with status 404, 403 or 500 and above is the last one of
\* its call: the call has returned the empty result with the error of that
\* status, whatever attempts were left.
C21_FailFastStatuses ==
  \A k \in DOMAIN responses :
    responses[k] \in {"404", "403", "500", "503"} =>
      /\ k = Len(responses)
      /\ fetch_pc = "returned"
      /\ fetch_result = EmptyResult
      /\ fetch_error = Some(CASE responses[k] = "404" -> "Channel not found (404)"
                              [] responses[k] = "403" -> "Access forbidden (403)"
                              [] OTHER -> "Server error")

\* the first request of a call met a 503 and the call returned at once
C21_Witness ==
  /\ responses = <<"503">>
  /\ attempt = 0
  /\ fetch_pc = "returned"

\* C25: the pool is the set of candidates that passed test_proxy in the
\* latest refresh that ran the tests: no member is kept from an earlier
\* refresh, and none is in the pool without having passed.
C25_PoolIsTestedSet ==
  /\ proxy_pool = passed
  /\ (refresh_call # None /\ refresh_call[1].tested # None) =>
       proxy_pool = refresh_call[1].tested[1]

\* a refresh replaced a pool of one proxy by another single proxy
C25_Witness ==
  /\ refresh_call # None
  /\ refresh_call[1].tested # None
  /\ refresh_call[1].before.pool # {}
  /\ proxy_pool # {}
  /\ proxy_pool \cap refresh_call[1].before.pool = {}

\* C26: a call of refresh_proxy_pool leaves pool and timestamp as they were
\* exactly when less than the refresh interval has passed since the last
\* refresh and the pool is non-empty; otherwise the timestamp is the time of
\* the call and the pool is what the tests of the call let through, be it empty.
C26_RefreshFrame ==
  refresh_call # None =>
    LET c == refresh_call[1] IN
      IF c.now - c.before.last_refresh < REFRESH_INTERVAL /\ c.before.pool # {}
        THEN /\ proxy_pool = c.before.pool
             /\ last_refresh = c.before.last_refresh
             /\ c.tested = None
        ELSE /\ last_refresh = c.now
             /\ c.tested # None
             /\ proxy_pool = c.tested[1]

\* a refresh that was due found no proxy: the pool is empty and the time noted
C26_Witness ==
  /\ refresh_call # None
  /\ refresh_call[1].before.pool # {}
  /\ refresh_call[1].now > refresh_call[1].before.last_refresh
  /\ proxy_pool = {}
  /\ last_refresh = refresh_call[1].now

\* the channels of the batch before the one at hand
PreviousBatch == {ch \in 1..channels_n : batch_i - batch_size < ch /\ ch <= batch_i}

\* the channels of the batch at hand that were processed
ProcessedOfBatch == {batch[k] : k \in {j \in DOMAIN batch : attempts[batch[j]] > 0}}

\* C22: a channel whose fetch met status 429 on every attempt is recorded as
\* failed, its error sets the rate-limit flag of its batch, and the batch
\* after it, if longer than 3, is made shorter.
C22_All429IsRateLimit ==
  /\ all_429 \subseteq DOMAIN failed_channels
  /\ (batch_pc = "channel" /\ all_429 \cap ProcessedOfBatch # {}) => rate_limit_encountered
  /\ (batch_pc = "channel" /\ all_429 \cap PreviousBatch # {} /\ nominal > 3) =>
       Len(batch) < nominal

\* C29: when a cycle is complete every channel of the list was fetched once
\* in it, and the channels counted as crawled and those recorded as failed
\* are all the channels.
C29_EveryChannelOnce ==
  batch_pc = "summary" =>
    /\ \A ch \in 1..channels_n : attempts[ch] = 1
    /\ crawled_channels + Cardinality(DOMAIN failed_channels) = channels_n

\* a rate-limit signal was observed in the batch before the one at hand
SignalInPrevious ==
  \E ch \in PreviousBatch \cap DOMAIN failed_channels : failed_channels[ch] \in Texts429

NewestSnapshots(n, snaps) ==
  {p \in snaps : Cardinality({q \in snaps : q[3] > p[3]}) < n}

\* C23: with a retention count N > 0, a save that returns leaves in the
\* channel's directory exactly the N snapshot files created last, the one it
\* wrote among them, and so at most N files.
C23_RetentionKeepsNewest ==
  [][(pc = "save" /\ pc' = "checkpoint" /\ CUMULATIVE_JSON_ITERATIONS > 0) =>
       Snapshots(files', channel_id) =
         NewestSnapshots(CUMULATIVE_JSON_ITERATIONS,
                         Snapshots(files, channel_id)
                           \cup {TimestampedFile(channel_id, clock)})]_vars

\* C24: what MessageHandler.load gives after a save that returned is the
\* collection that save stored, the most recently saved one of the channel.
C24_LoadGivesLastSaved ==
  [][(pc = "save" /\ pc' = "checkpoint") =>
       MessageHandler_load(files', channel_id, {}) =
         Some(Merged(existing_messages, new_messages))]_vars

\* the checkpoint file is missing or its content is corrupt
CorruptCheckpoint ==
  \/ checkpoint_file.kind \in {"absent", "unparseable", "array"}
  \/ \E k \in DOMAIN checkpoint_file.entries :
       checkpoint_file.entries[k] \notin {"timestamp", "null"}

\* C27: the constructor never fails because of the checkpoint file; with a
\* missing or corrupt file the mapping it loads is empty and run() is called.
C27_CheckpointFileTolerated ==
  /\ run_pc # "raised"
  /\ (CorruptCheckpoint /\ run_pc \notin {"app", "construct", "returned"}) =>
       loaded_times = EmptyDict

\* the channel list is absent, an empty array or no JSON array
NoChannelList == channels_file \in {"absent", "empty_array", "not_array"}

\* C28: with no channel list the process logs the error and ends with an
\* exit status other than 0, and no crawl cycle starts.
C28_NoChannelsIsFatal ==
  (NoChannelList /\ run_pc # "app") =>
    /\ app_log # <<>>
    /\ exit_status # None
    /\ exit_status # Some(0)
    /\ loop_count = 0
    /\ ~InMainLoop

\* C31: a channel recorded as failed ends that channel only: when the cycle
\* is complete every channel after it in the list was fetched once.
C31_FailureAbortsOnlyChannel ==
  batch_pc = "summary" =>
    \A ch \in DOMAIN failed_channels :
      \A later \in (ch + 1)..channels_n : attempts[later] = 1

\* C32: after the processing of a channel that is not the last one of its
\* batch the politeness delay is slept, whatever the outcome of the channel.
C32_DelayBetweenChannels ==
  [][(batch_pc = "channel" /\ pos < Len(batch)) =>
       channel_sleep' = POLITENESS_DELAY]_vars

\* the channels of the batch completed last that are recorded as failed
FailedOfBatch == {k \in DOMAIN batch : batch[k] \in DOMAIN failed_channels}

\* C33: after a batch the sleep made is min(60, 5 * failures) when more than
\* half of the channels of the batch failed and none otherwise, failures
\* being the number of channels of the batch recorded as failed.
C33_AdaptiveDelay ==
  (batch_pc \in {"batch", "summary"} /\ batch # <<>>) =>
    /\ batch_failures = Cardinality(FailedOfBatch)
    /\ adaptive_delay = IF 2 * Cardinality(FailedOfBatch) > Len(batch)
                          THEN Min(60, 5 * Cardinality(FailedOfBatch))
                          ELSE 0

\* both channels of a batch of two failed and the delay of 10 seconds was slept
C33_Witness ==
  /\ batch_pc = "summary"
  /\ Len(batch) = 2
  /\ Cardinality(FailedOfBatch) = 2
  /\ batch_failures = 2
  /\ adaptive_delay = 10

\* the response of the request made last
LastResponse == responses[Len(responses)]

\* C34: after a connection error or a timeout of an attempt that is not the
\* last one the fetcher sleeps 5 * 2^attempt seconds and picks a proxy again
\* before the next attempt.
C34_BackoffAndReselection ==
  [][(fetch_pc = "request" /\ attempt < retries - 1
        /\ LastResponse' \in {"ConnectionError", "Timeout"}) =>
       /\ fetch_pc' = "request"
       /\ waits'[Len(waits')] = 5 * (2 ^ attempt)
       /\ fetch_use_proxies =>
            IF proxy_pool' = {} THEN proxy' = None
                                ELSE proxy' # None /\ proxy'[1] \in proxy_pool']_vars

\* C35: after status 429 the fetcher sleeps min(60, 20 * attempt number), and
\* the attempts that met 429 do not count against connection errors: the
\* first connection error of a call is retried whatever number of 429
\* responses came before it.
C35_RateLimitKeepsBudget ==
  /\ [][(fetch_pc = "request" /\ LastResponse' = "429") =>
          waits'[Len(waits')] = Min(60, 20 * (attempt + 1))]_vars
  /\ [][(fetch_pc = "request" /\ LastResponse' = "ConnectionError"
           /\ \A k \in DOMAIN responses : responses[k] = "429") =>
          fetch_pc' = "request"]_vars

\* C36: once the availability flag is down, a save neither constructs a
\* producer nor publishes: the flag stays down, no producer exists after the
\* save and nothing was handed to the broker.
C36_UnavailableSkipsBroker ==
  [][(USE_KAFKA /\ ~available /\ pc \in {"save", "checkpoint"}) =>
       /\ ~available'
       /\ producer' = "none"
       /\ queue' = queue]_vars

\* C37: when a delivery report of the batch saved last told a failure, the
\* pending entry of the batch's file is still in the map and the file is
\* on disk.
C37_FailedReportKeepsEntry ==
  [][(pc = "save" /\ pc' = "checkpoint" /\ CUMULATIVE_JSON_ITERATIONS = 0
        /\ call'.failure = "none" /\ watch'.active /\ ~watch'.all_ok) =>
       /\ \E k \in DOMAIN pending_deliveries' :
            pending_deliveries'[k][2] = watch'.path
       /\ watch'.path \in DOMAIN files']_vars

\* the command line names an interval that is true and below the floor
IntervalBelowFloorGiven == Truthy(args_interval) /\ args_interval[1] < MIN_INTERVAL

\* C39: with an --interval below 60 seconds the crawler is given 60 seconds
\* as its interval, run() does not refuse it, and the cycles run with it.
C39_LowIntervalRaisedToFloor ==
  (IntervalBelowFloorGiven /\ run_pc \notin {"app", "construct", "returned", "raised"}) =>
    /\ interval_seconds = MIN_INTERVAL
    /\ (run_pc = "exited" => checks # None)
    /\ (run_pc = "sleeping" /\ cycle_result = "completed") => slept = MIN_INTERVAL

\* the channels of which BioHandler.load gives a bio
LoadedBioChannels ==
  {BioHandler_load(files)[k].channel_id : k \in DOMAIN BioHandler_load(files)}

\* C38: when the cycle is over every bio extracted in it was held by exactly
\* one bio save that returned, and bios is empty after a flush that returned.
C38_EveryBioSavedOnce ==
  /\ bio_pc = "done" => \A ch \in bio_extracted : bio_saves[ch] = 1
  /\ (bio_pc \in {"batch", "done"} /\ ~call.exc) => bios = <<>>

\* C40: after a cycle of several batches BioHandler.load gives a bio for
\* every channel whose bio was saved in the cycle.
C40_LoadGivesEverySavedBio ==
  bio_pc = "done" =>
    \A ch \in DOMAIN bio_saves : bio_saves[ch] > 0 => ch \in LoadedBioChannels

====
